---- MODULE Spec2Model ----
(***************************************************************************)
(* Forward kinematics node (forward_kinematics/scripts/solution.py).       *)
(*                                                                         *)
(* The node holds a robot description (self.robot) and a publisher         *)
(* (self.pub_tf).  Every JointState message runs callback: the chain is    *)
(* extracted from the root, compute_transforms folds it into one world    *)
(* transform per link, and the batch is published.                         *)
(*                                                                         *)
(* Numbers.  Joint positions are exact multiples of pi/2 and are stored as *)
(* the number of quarter turns (0..3).  Rotation axes have at most one     *)
(* non-zero component and origins are integer vectors, so every matrix the *)
(* program builds has integer entries and the arithmetic of the model is   *)
(* the arithmetic of the program, without rounding.  A quaternion built    *)
(* by quaternion_about_axis is stored multiplied by sqrt(2) when the       *)
(* number of quarter turns is odd (quaternion_matrix divides by the norm,  *)
(* so the matrix does not depend on that factor); the quaternion of a      *)
(* message is stored before its final scaling, together with the value t   *)
(* it is scaled by.                                                        *)
(***************************************************************************)
EXTENDS Integers, Sequences, FiniteSets, TLC

\* ------------------------------------------------------------------ bounds
\* Updates (JointState messages) delivered in one behaviour.
MaxUpdates == 3
\* Entries the extraction loop may append before the model stops following it
\* (a cyclic description makes the loop of the program run without end).
MaxChain == 4

\* ------------------------------------------------------- tf.transformations
Abs(x) == IF x < 0 THEN -x ELSE x

\* numpy.identity(4)
identity_matrix ==
    << <<1, 0, 0, 0>>, <<0, 1, 0, 0>>, <<0, 0, 1, 0>>, <<0, 0, 0, 1>> >>

\* identity with the last column set to the direction
translation_matrix(xyz) ==
    << <<1, 0, 0, xyz[1]>>, <<0, 1, 0, xyz[2]>>, <<0, 0, 1, xyz[3]>>, <<0, 0, 0, 1>> >>

\* numpy.dot of two 4x4 matrices
dot(A, B) ==
    [i \in 1..4 |-> [j \in 1..4 |->
        A[i][1] * B[1][j] + A[i][2] * B[2][j] + A[i][3] * B[3][j] + A[i][4] * B[4][j]]]

\* Mutant: the rotation is applied before the translation.
concatenate_matrices_RD(T0, D, R) == dot(dot(dot(identity_matrix, T0), R), D)

\* M = identity; for each argument in order: M = dot(M, argument)
concatenate_matrices(T0, D, R) == dot(dot(dot(identity_matrix, T0), D), R)

\* Euclidean length of an axis with at most one non-zero component.
vector_norm(v) == Abs(v[1]) + Abs(v[2]) + Abs(v[3])

\* sin and cos of half of q quarter turns, both times sqrt(2) when q is odd.
SinHalf(q) == IF q % 4 = 0 THEN 0 ELSE 1
CosHalf(q) == CASE q % 4 = 0 -> 1 [] q % 4 = 1 -> 1 [] q % 4 = 2 -> 0 [] OTHER -> -1

\* quaternion[:3] = axis; scaled by sin(angle/2)/qlen only when qlen > _EPS;
\* quaternion[3] = cos(angle/2).  Result <<x, y, z, w>>.
quaternion_about_axis(angle, axis) ==
    LET qlen == vector_norm(axis)
        xyz  == IF qlen > 0
                THEN [i \in 1..3 |-> (axis[i] * SinHalf(angle)) \div qlen]
                ELSE axis
    IN  <<xyz[1], xyz[2], xyz[3], CosHalf(angle)>>

\* nq = dot(q, q); identity when nq < _EPS; else q *= sqrt(2/nq), q = outer(q, q)
\* and the rotation matrix is read off the outer product.
quaternion_matrix(quaternion) ==
    LET q  == quaternion
        nq == q[1] * q[1] + q[2] * q[2] + q[3] * q[3] + q[4] * q[4]
        o(i, j) == (2 * q[i] * q[j]) \div nq
    IN  IF nq = 0
        THEN identity_matrix
        ELSE << <<1 - o(2, 2) - o(3, 3), o(1, 2) - o(3, 4), o(1, 3) + o(2, 4), 0>>,
                <<o(1, 2) + o(3, 4), 1 - o(1, 1) - o(3, 3), o(2, 3) - o(1, 4), 0>>,
                <<o(1, 3) - o(2, 4), o(2, 3) + o(1, 4), 1 - o(1, 1) - o(2, 2), 0>>,
                <<0, 0, 0, 1>> >>

\* the last column of the matrix
translation_from_matrix(M) == <<M[1][4], M[2][4], M[3][4]>>

\* The quaternion of the rotation block before its final scaling by
\* 0.5/sqrt(t * M[3,3]), and t.  Index 1..3 = x, y, z and 4 = w.
quaternion_from_matrix(M) ==
    LET tr == M[1][1] + M[2][2] + M[3][3] + M[4][4]
    IN  IF tr > M[4][4]
        THEN [x |-> M[3][2] - M[2][3], y |-> M[1][3] - M[3][1],
              z |-> M[2][1] - M[1][2], w |-> tr, t |-> tr]
        ELSE LET s1 == IF M[2][2] > M[1][1] THEN <<2, 3, 1>> ELSE <<1, 2, 3>>
                 s2 == IF M[3][3] > M[s1[1]][s1[1]] THEN <<3, 1, 2>> ELSE s1
                 i  == s2[1]
                 j  == s2[2]
                 k  == s2[3]
                 t  == M[i][i] - (M[j][j] + M[k][k]) + M[4][4]
                 q  == [n \in 1..4 |->
                          CASE n = i -> t
                            [] n = j -> M[i][j] + M[j][i]
                            [] n = k -> M[k][i] + M[i][k]
                            [] OTHER -> M[k][j] - M[j][k]]
             IN  [x |-> q[1], y |-> q[2], z |-> q[3], w |-> q[4], t |-> t]

\* ------------------------------------------------------------- convert_to_message
\* Mutant: the frame names are assigned the wrong way round.
convert_to_message_swapped(M, child, parent, stamp) ==
    [header         |-> [frame_id |-> child, stamp |-> stamp],
     child_frame_id |-> parent,
     transform      |-> [translation |-> translation_from_matrix(M),
                         rotation    |-> quaternion_from_matrix(M)]]

\* The TransformStamped of transform M; stamp is the value of rospy.Time.now().
convert_to_message(M, child, parent, stamp) ==
    [header         |-> [frame_id |-> parent, stamp |-> stamp],
     child_frame_id |-> child,
     transform      |-> [translation |-> translation_from_matrix(M),
                         rotation    |-> quaternion_from_matrix(M)]]

\* ------------------------------------------------------------ robot descriptions
\* Link names in the order a chain meets them; LinkOrder[1] is the root.
LinkOrder == <<"world_link", "l1", "l2", "l3", "l4">>
\* JointOrder[i] is the joint on the (first) edge that leaves LinkOrder[i].
JointOrder == <<"j1", "j2", "j3", "j4">>

FixedJoint(name, xyz) ==
    [name |-> name, type |-> "fixed", origin |-> [xyz |-> xyz], axis |-> <<0, 0, 0>>]
RevoluteJoint(name, xyz, axis) ==
    [name |-> name, type |-> "revolute", origin |-> [xyz |-> xyz], axis |-> axis]

\* The joint records a description may hold under each name.
JointChoices(name) ==
    CASE name = "j1" -> {FixedJoint("j1", <<1, 0, 0>>),
                         RevoluteJoint("j1", <<0, 1, 0>>, <<0, 0, 1>>)}
      [] name = "j2" -> {RevoluteJoint("j2", <<1, 0, 0>>, <<2, 0, 0>>),
                         RevoluteJoint("j2", <<0, 0, 1>>, <<0, 0, 0>>)}
      [] name = "j3" -> {FixedJoint("j3", <<0, 2, 0>>),
                         RevoluteJoint("j3", <<1, 0, 1>>, <<0, -1, 0>>)}
      [] OTHER       -> {FixedJoint(name, <<1, 0, 0>>)}

\* child_map of a description whose first n links form a path from the root
\* and whose link n+1 ends the path: kind "leaf" (no edge), "fork" (two edges)
\* or "back" (one edge, back to link k+1 of the path).
ChildMap(n, kind, k) ==
    LET last  == LinkOrder[n + 1]
        inner == [l \in {LinkOrder[i] : i \in 1..n} |->
                     LET i == CHOOSE i \in 1..n : LinkOrder[i] = l
                     IN  << <<JointOrder[i], LinkOrder[i + 1]>> >>]
    IN  CASE kind = "leaf" -> inner
          [] kind = "fork" ->
               [l \in DOMAIN inner \cup {last} |->
                   IF l = last
                   THEN << <<JointOrder[n + 1], LinkOrder[n + 2]>>, <<"jx", "lx">> >>
                   ELSE inner[l]]
          [] OTHER ->
               [l \in DOMAIN inner \cup {last} |->
                   IF l = last
                   THEN << <<JointOrder[n + 1], LinkOrder[k + 1]>> >>
                   ELSE inner[l]]

\* The longest path of distinct links a description of the model has.
MaxPath == Len(JointOrder) - 1

ChildMaps ==
    { ChildMap(n, kind, 0) : n \in 0..MaxPath, kind \in {"leaf", "fork"} } \cup
    UNION { { ChildMap(n, "back", k) : k \in 1..n } : n \in 1..MaxPath }

\* The links of a description: every link that is the parent or the child of an edge.
LinksOf(cm) ==
    DOMAIN cm \cup UNION { {cm[l][i][2] : i \in 1..Len(cm[l])} : l \in DOMAIN cm }

\* The joints the edges of a description name.
JointNamesOf(cm) ==
    UNION { {cm[l][i][1] : i \in 1..Len(cm[l])} : l \in DOMAIN cm }

\* joint_map tables for child_map cm: each joint an edge names has one of its
\* records, or is absent from the table.
JointMapsFor(cm) ==
    UNION { { jm \in [P -> UNION {JointChoices(n) : n \in P}] :
                 \A n \in P : jm[n] \in JointChoices(n) } :
            P \in SUBSET JointNamesOf(cm) }

Robots ==
    UNION { { [child_map |-> cm, joint_map |-> jm,
               links |-> LinksOf(cm) \cup {LinkOrder[1]}] : jm \in JointMapsFor(cm) } :
            cm \in ChildMaps }

\* URDF.get_root(): the link that is the child of no joint.
get_root(r) ==
    CHOOSE l \in r.links :
        \A p \in DOMAIN r.child_map :
            \A i \in 1..Len(r.child_map[p]) : r.child_map[p][i][2] # l

\* ------------------------------------------------------------ joint configurations
JointState(names, positions) == [name |-> names, position |-> positions]

JointStates ==
    { JointState(<<>>, <<>>),
      JointState(<<"j1">>, <<0>>),
      JointState(<<"j2", "j1">>, <<2, 1>>),
      JointState(<<"j2", "j3", "j1">>, <<2, 0, 1>>),
      JointState(<<"j3", "j1", "jx", "j1", "j2", "j2">>, <<3, 2, 1, 3, 1, 2>>) }

\* ------------------------------------------------------------------- state
VARIABLES
    robot,          \* self.robot: the description, loaded once
    pub_tf,         \* self.pub_tf: the outgoing queue (queue_size = 1)
    now,            \* the clock rospy.Time.now() reads
    pc,             \* where the node is: "idle", "extract", "compute", "done", "failed"
    joint_values,   \* callback: the JointState message being processed
    link_name,      \* callback: the link the traversal is at
    link_names,     \* callback: child links collected so far
    joints,         \* callback: joints collected so far
    T,              \* compute_transforms: the accumulated transform
    it,             \* compute_transforms: entries processed so far
    q,              \* compute_transforms: the joint value resolved last
    all_transforms, \* compute_transforms: tfMessage.transforms
    remembered      \* history: the configuration and poses of one earlier run, or <<>>

vars == <<robot, pub_tf, now, pc, joint_values, link_name, link_names, joints,
          T, it, q, all_transforms, remembered>>

callback_locals == <<link_name, link_names, joints>>
compute_locals  == <<T, it, q, all_transforms>>

\* A pose is what a record says apart from its time stamp.
PoseOf(msg) ==
    [parent |-> msg.header.frame_id, child |-> msg.child_frame_id,
     transform |-> msg.transform]
Poses(transforms) == [i \in 1..Len(transforms) |-> PoseOf(transforms[i])]

Init ==
    /\ robot \in Robots
    /\ pub_tf = <<>>
    /\ now = 0
    /\ pc = "idle"
    /\ joint_values = JointState(<<>>, <<>>)
    /\ link_name = get_root(robot)
    /\ link_names = <<>>
    /\ joints = <<>>
    /\ T = identity_matrix
    /\ it = 0
    /\ q = 0
    /\ all_transforms = <<>>
    /\ remembered = <<>>

\* ---------------------------------------------------------------- callback
\* A JointState message arrives and callback starts (the node is single
\* threaded: the previous run has returned or raised).
Callback(msg) ==
    /\ pc \in {"idle", "done", "failed"}
    /\ now < MaxUpdates
    /\ now' = now + 1
    /\ joint_values' = msg
    /\ link_name' = get_root(robot)
    /\ link_names' = <<>>
    /\ joints' = <<>>
    /\ pc' = "extract"
    /\ UNCHANGED <<robot, pub_tf, remembered, compute_locals>>

\* Mutant: the accumulated transform is kept from the previous call.
BeginCompute_keepT ==
    /\ all_transforms' = <<>>
    /\ T' = T
    /\ it' = 0
    /\ q' = 0

\* compute_transforms is entered: a new tfMessage, T = identity.
BeginCompute ==
    /\ all_transforms' = <<>>
    /\ T' = identity_matrix
    /\ it' = 0
    /\ q' = 0

\* The current link has no entry in child_map: the loop ends and
\* compute_transforms is called with the chain collected.
ExtractLeaf ==
    /\ pc = "extract"
    /\ link_name \notin DOMAIN robot.child_map
    /\ pc' = "compute"
    /\ BeginCompute
    /\ UNCHANGED <<robot, pub_tf, now, joint_values, callback_locals, remembered>>

\* The current link has not exactly one child: the branch calls rospy.logerror.
\* rospy has logerr, not logerror, so the call raises AttributeError before
\* the break and callback ends without computing or publishing anything.
ExtractFork ==
    /\ pc = "extract"
    /\ link_name \in DOMAIN robot.child_map
    /\ Len(robot.child_map[link_name]) # 1
    /\ pc' = "failed"
    /\ UNCHANGED <<robot, pub_tf, now, joint_values, callback_locals,
                   compute_locals, remembered>>

\* The joint of the single edge is not in joint_map: rospy.logerror again,
\* AttributeError, nothing computed or published.
ExtractMissingJoint ==
    /\ pc = "extract"
    /\ link_name \in DOMAIN robot.child_map
    /\ Len(robot.child_map[link_name]) = 1
    /\ robot.child_map[link_name][1][1] \notin DOMAIN robot.joint_map
    /\ pc' = "failed"
    /\ UNCHANGED <<robot, pub_tf, now, joint_values, callback_locals,
                   compute_locals, remembered>>

\* One edge, joint known: append the joint and the child link, move on.
ExtractStep ==
    /\ pc = "extract"
    /\ link_name \in DOMAIN robot.child_map
    /\ Len(robot.child_map[link_name]) = 1
    /\ LET joint_name     == robot.child_map[link_name][1][1]
           next_link_name == robot.child_map[link_name][1][2]
       IN  /\ joint_name \in DOMAIN robot.joint_map
           /\ Len(link_names) < MaxChain
           /\ joints' = Append(joints, robot.joint_map[joint_name])
           /\ link_names' = Append(link_names, next_link_name)
           /\ link_name' = next_link_name
    /\ UNCHANGED <<robot, pub_tf, now, pc, joint_values, compute_locals, remembered>>

\* ------------------------------------------------------- compute_transforms
Occurrences(names, name) == {i \in 1..Len(names) : names[i] = name}

\* Mutant: a missing name resolves to a quarter turn.
JointValue_default1(jv, name) ==
    IF Occurrences(jv.name, name) = {}
    THEN 1
    ELSE jv.position[CHOOSE i \in Occurrences(jv.name, name) :
                        \A k \in Occurrences(jv.name, name) : i <= k]

\* Mutant: the last occurrence of the name is used.
JointValue_last(jv, name) ==
    IF Occurrences(jv.name, name) = {}
    THEN 0
    ELSE jv.position[CHOOSE i \in Occurrences(jv.name, name) :
                        \A k \in Occurrences(jv.name, name) : i >= k]

\* index = joint_values.name.index(name); q = joint_values.position[index];
\* on ValueError q = 0.0.  list.index returns the first index of the name.
JointValue(jv, name) ==
    IF Occurrences(jv.name, name) = {}
    THEN 0
    ELSE jv.position[CHOOSE i \in Occurrences(jv.name, name) :
                        \A k \in Occurrences(jv.name, name) : i <= k]

\* Cosine and sine of a whole number of quarter turns.
Cos4(n) == CASE n % 4 = 0 -> 1 [] n % 4 = 2 -> -1 [] OTHER -> 0
Sin4(n) == CASE n % 4 = 1 -> 1 [] n % 4 = 3 -> -1 [] OTHER -> 0

\* The rotation by `angle` quarter turns about `u` by Rodrigues' formula
\* c I + s [u]x + (1 - c) u u^T, which is a rotation when u has length one.
Rodrigues(angle, u) ==
    LET c == Cos4(angle)
        s == Sin4(angle)
        K == << <<0, -u[3], u[2]>>, <<u[3], 0, -u[1]>>, <<-u[2], u[1], 0>> >>
        e(i, j) == (IF i = j THEN c ELSE 0) + s * K[i][j] + (1 - c) * u[i] * u[j]
    IN  << <<e(1, 1), e(1, 2), e(1, 3), 0>>,
           <<e(2, 1), e(2, 2), e(2, 3), 0>>,
           <<e(3, 1), e(3, 2), e(3, 3), 0>>,
           <<0, 0, 0, 1>> >>

\* Mutant: the rotation is built from the axis as given, without the
\* quaternion's normalisation.
JointRotation_rawAxis(joint, value) ==
    IF joint.type = "revolute"
    THEN Rodrigues(value, joint.axis)
    ELSE identity_matrix

\* R: the rotation of a revolute joint by its value about its axis, the
\* identity for any other joint.
JointRotation(joint, value) ==
    IF joint.type = "revolute"
    THEN quaternion_matrix(quaternion_about_axis(value, joint.axis))
    ELSE identity_matrix

\* One iteration of the loop over range(len(joints)).
ComputeStep ==
    /\ pc = "compute"
    /\ it < Len(joints)
    /\ LET joint == joints[it + 1]
           D     == translation_matrix(joint.origin.xyz)
           value == JointValue(joint_values, joint.name)
           R     == JointRotation(joint, value)
           Tnew  == concatenate_matrices(T, D, R)
       IN  /\ q' = value
           /\ T' = Tnew
           /\ all_transforms' =
                 Append(all_transforms,
                        convert_to_message(Tnew, link_names[it + 1], "world_link", now))
    /\ it' = it + 1
    /\ UNCHANGED <<robot, pub_tf, now, pc, joint_values, callback_locals, remembered>>

\* The loop is over: compute_transforms returns and callback publishes the
\* message.  The queue holds one message; a new one replaces it.
Publish ==
    /\ pc = "compute"
    /\ it = Len(joints)
    /\ pub_tf' = << [transforms |-> all_transforms] >>
    /\ pc' = "done"
    /\ remembered' \in {remembered,
                        << [joint_values |-> joint_values, run |-> now,
                            poses |-> Poses(all_transforms)] >>}
    /\ UNCHANGED <<robot, now, joint_values, callback_locals, compute_locals>>

Next ==
    \/ \E msg \in JointStates : Callback(msg)
    \/ ExtractLeaf
    \/ ExtractFork
    \/ ExtractMissingJoint
    \/ ExtractStep
    \/ ComputeStep
    \/ Publish

Spec == Init /\ [][Next]_vars

\* ------------------------------------------------------------ reference values
\* D_j: the pure translation by the joint's origin.
RefTranslation(joint) ==
    << <<1, 0, 0, joint.origin.xyz[1]>>, <<0, 1, 0, joint.origin.xyz[2]>>,
       <<0, 0, 1, joint.origin.xyz[3]>>, <<0, 0, 0, 1>> >>

\* R_j: the rotation by `value` about the joint's axis (taken with length one)
\* for a revolute joint with an axis, the identity otherwise.
RefRotation(joint, value) ==
    LET len == Abs(joint.axis[1]) + Abs(joint.axis[2]) + Abs(joint.axis[3])
    IN  IF joint.type = "revolute" /\ len > 0
        THEN Rodrigues(value, [i \in 1..3 |-> joint.axis[i] \div len])
        ELSE identity_matrix

\* Identity . D_1 . R_1 . ... . D_k . R_k for the first k joints of js.
RECURSIVE ChainProduct(_, _, _)
ChainProduct(js, jv, k) ==
    IF k = 0
    THEN identity_matrix
    ELSE dot(ChainProduct(js, jv, k - 1),
             dot(RefTranslation(js[k]), RefRotation(js[k], JointValue(jv, js[k].name))))

\* The translation and quaternion a record holds for transform M.
TransformOf(M) ==
    [translation |-> <<M[1][4], M[2][4], M[3][4]>>, rotation |-> quaternion_from_matrix(M)]

\* The poses of the chain collected in joints and link_names.
ExpectedPoses ==
    [i \in 1..Len(joints) |->
        [parent |-> "world_link", child |-> link_names[i],
         transform |-> TransformOf(ChainProduct(joints, joint_values, i))]]

Published == IF pub_tf = <<>> THEN <<>> ELSE pub_tf[1].transforms

AtFork ==
    /\ link_name \in DOMAIN robot.child_map
    /\ Len(robot.child_map[link_name]) > 1

AtMissingJoint ==
    /\ link_name \in DOMAIN robot.child_map
    /\ Len(robot.child_map[link_name]) = 1
    /\ robot.child_map[link_name][1][1] \notin DOMAIN robot.joint_map

\* -------------------------------------------------------------------- claims

\* C1: a run whose traversal meets a link with more than one outgoing edge is
\* not aborted: it ends by publishing exactly the poses of the links before
\* the fork.
C1_ForkPublishesPrefix ==
    (pc \in {"done", "failed"} /\ AtFork) =>
        /\ pc = "done"
        /\ Poses(Published) = ExpectedPoses

\* C2: a run whose traversal meets an edge whose joint is absent from
\* joint_map keeps the chain collected so far and ends by publishing its poses.
C2_MissingJointPublishesPrefix ==
    (pc \in {"done", "failed"} /\ AtMissingJoint) =>
        /\ pc = "done"
        /\ Len(Published) = Len(joints)
        /\ Poses(Published) = ExpectedPoses

\* configuration `more` is configuration `less` with one entry (name, 0) added
InsertAt(s, k, v) == SubSeq(s, 1, k - 1) \o <<v>> \o SubSeq(s, k, Len(s))
AddsZero(less, more, name) ==
    /\ Occurrences(less.name, name) = {}
    /\ \E k \in 1..(Len(less.name) + 1) :
          /\ more.name = InsertAt(less.name, k, name)
          /\ more.position = InsertAt(less.position, k, 0)

ChainJointNames == {joints[i].name : i \in 1..Len(joints)}

\* C3: a chain joint whose name the configuration omits is resolved to 0, the
\* run still publishes one pose per chain entry, and the poses are those of
\* the run whose configuration supplies the joint with value 0 in addition.
C3_MissingValueDefaultsToZero ==
    /\ (pc = "compute" /\ it > 0 /\ Occurrences(joint_values.name, joints[it].name) = {})
          => q = 0
    /\ pc = "done" => Len(Published) = Len(joints)
    /\ (pc = "done" /\ remembered # <<>>) =>
          \A name \in ChainJointNames :
              (\/ AddsZero(joint_values, remembered[1].joint_values, name)
               \/ AddsZero(remembered[1].joint_values, joint_values, name))
                 => Poses(Published) = remembered[1].poses

C3_Witness ==
    /\ pc = "done"
    /\ remembered # <<>>
    /\ \E i \in 1..Len(joints) :
          /\ joints[i].type = "revolute"
          /\ joints[i].axis # <<0, 0, 0>>
          /\ AddsZero(joint_values, remembered[1].joint_values, joints[i].name)

\* C4 as stated: the value used for a joint whose name recurs in the
\* configuration is the value at the last occurrence of the name.
C4_LastValueWins ==
    (pc = "compute" /\ it > 0 /\ Occurrences(joint_values.name, joints[it].name) # {}) =>
        \E i \in Occurrences(joint_values.name, joints[it].name) :
            /\ \A k \in Occurrences(joint_values.name, joints[it].name) : k <= i
            /\ q = joint_values.position[i]

\* C4 amended: the value used for a joint whose name recurs in the
\* configuration is the value at the first occurrence of the name.
C4_FirstValueWins ==
    (pc = "compute" /\ it > 0 /\ Occurrences(joint_values.name, joints[it].name) # {}) =>
        \E i \in Occurrences(joint_values.name, joints[it].name) :
            /\ \A k \in Occurrences(joint_values.name, joints[it].name) : i <= k
            /\ q = joint_values.position[i]

C4_Witness ==
    /\ pc = "compute"
    /\ it > 0
    /\ \E i, k \in Occurrences(joint_values.name, joints[it].name) :
          /\ i < k
          /\ joint_values.position[i] # joint_values.position[k]
          /\ q = joint_values.position[i]

\* C5: the transform accumulated after i iterations, and the transform
\* recorded for link_names[i], is Identity . D_1 . R_1 . ... . D_i . R_i,
\* with R_j the identity for a fixed joint whatever its configured value.
C5_IncrementalEqualsProduct ==
    pc \in {"compute", "done"} =>
        /\ T = ChainProduct(joints, joint_values, it)
        /\ \A i \in 1..Len(all_transforms) :
              all_transforms[i].transform =
                  TransformOf(ChainProduct(joints, joint_values, i))

C5_Witness ==
    /\ pc = "done"
    /\ Len(joints) = 3
    /\ Len(Published) = 3
    /\ joints[1].type = "revolute" /\ JointValue(joint_values, joints[1].name) # 0
    /\ joints[2].type = "revolute" /\ JointValue(joint_values, joints[2].name) # 0
    /\ joints[3].type = "fixed" /\ JointValue(joint_values, joints[3].name) # 0

\* C6: compute_transforms returns one record per chain entry, in chain order:
\* record i has child frame link_names[i] and parent frame "world_link"; the
\* published message holds exactly these records.
C6_BatchShapeAndOrder ==
    /\ pc \in {"compute", "done"} =>
          /\ Len(all_transforms) = it
          /\ \A i \in 1..Len(all_transforms) :
                /\ all_transforms[i].child_frame_id = link_names[i]
                /\ all_transforms[i].header.frame_id = "world_link"
    /\ pc = "done" =>
          /\ Len(link_names) = Len(joints)
          /\ Len(Published) = Len(joints)
          /\ Published = all_transforms

C6_Witness ==
    /\ pc = "done"
    /\ Len(joints) = 3
    /\ Len(Published) = 3
    /\ Published[3].child_frame_id = "l3"

\* C7: the poses a run publishes depend only on its configuration and the
\* description: a run with the configuration of a remembered earlier run
\* publishes the same poses, whatever ran before or in between; and no step
\* changes the description.
SameConfigurationSamePoses ==
    (pc = "done" /\ remembered # <<>> /\ remembered[1].joint_values = joint_values) =>
        Poses(Published) = remembered[1].poses

C7_Deterministic == [][robot' = robot /\ SameConfigurationSamePoses']_vars

C7_Witness ==
    /\ pc = "done"
    /\ now = 3
    /\ remembered # <<>>
    /\ remembered[1].run = 1
    /\ remembered[1].joint_values = joint_values
    /\ Len(Published) = 3
    /\ Published[3].header.stamp = 3
    /\ \E i \in 1..3 : joints[i].type = "revolute" /\ q # 0

ZeroAxisEntries ==
    {k \in 1..Len(joints) : joints[k].type = "revolute" /\ joints[k].axis = <<0, 0, 0>>}

\* C8 as stated: a revolute joint with a zero-length axis at chain entry k
\* fails that joint: the poses of the entries before k are published, none
\* for entry k or any later entry.
C8_DegenerateAxisTruncates ==
    (pc = "done" /\ ZeroAxisEntries # {}) =>
        \E k \in ZeroAxisEntries :
            /\ \A m \in ZeroAxisEntries : k <= m
            /\ Len(Published) = k - 1
            /\ \A i \in 1..Len(Published) : PoseOf(Published[i]) = ExpectedPoses[i]

\* C8 amended: a revolute joint with a zero-length axis at chain entry k
\* raises no error and is composed with the identity rotation: the pose of
\* entry k is the pose of entry k-1 moved by the joint's origin translation,
\* the poses before k are what they are without the joint, and the run
\* publishes a pose for every chain entry, k and the later ones included.
C8_DegenerateAxisIsIdentity ==
    /\ pc \in {"compute", "done"} =>
          \A k \in ZeroAxisEntries :
              k <= Len(all_transforms) =>
                 /\ all_transforms[k].transform =
                       TransformOf(dot(ChainProduct(joints, joint_values, k - 1),
                                       RefTranslation(joints[k])))
                 /\ \A i \in 1..(k - 1) :
                       all_transforms[i].transform =
                           TransformOf(ChainProduct(SubSeq(joints, 1, k - 1), joint_values, i))
    /\ (pc = "done" /\ ZeroAxisEntries # {}) => Len(Published) = Len(joints)

C8_Witness ==
    /\ pc = "done"
    /\ Len(Published) = 3
    /\ 2 \in ZeroAxisEntries
    /\ JointValue(joint_values, joints[2].name) # 0
    /\ joints[1].type = "revolute"
    /\ JointValue(joint_values, joints[1].name) # 0

\* C9: every run terminates.  The extraction loop is deterministic, so it
\* terminates exactly when it never comes back to a link: its variant, the
\* number of links not yet visited, stays non-negative; the composition loop
\* never goes past the chain.
C9_RunTerminates ==
    /\ pc = "extract" => Cardinality(robot.links) - 1 - Len(link_names) >= 0
    /\ pc = "compute" => it <= Len(joints)

\* C10: during extraction joints and link_names have the same length, entry 1
\* follows the single edge of the root, entry i + 1 the single edge of the
\* child link of entry i, and no link name appears twice in the chain.
C10_ChainIsSimplePath ==
    pc = "extract" =>
        /\ Len(joints) = Len(link_names)
        /\ link_name = (IF link_names = <<>> THEN get_root(robot)
                        ELSE link_names[Len(link_names)])
        /\ \A i \in 1..Len(link_names) :
              LET parent == IF i = 1 THEN get_root(robot) ELSE link_names[i - 1]
              IN  /\ parent \in DOMAIN robot.child_map
                  /\ Len(robot.child_map[parent]) = 1
                  /\ robot.child_map[parent][1] = <<joints[i].name, link_names[i]>>
        /\ \A i, k \in 1..Len(link_names) : i # k => link_names[i] # link_names[k]

====
